---------------------------- MODULE Spec2Model ----------------------------
(***************************************************************************)
(* Model of aspuru-guzik-group/chimera, src/src/chimera/chimera.py: the    *)
(* Chimera hierarchy-based scalarizer.                                     *)
(*                                                                         *)
(* Numbers.  numpy float64 values are modelled as exact rationals <<n, d>> *)
(* in lowest terms with d > 0.  The three non-finite floats keep their own *)
(* representation with denominator 0: <<0, 0>> is NaN, <<1, 0>> is +inf    *)
(* and <<-1, 0>> is -inf, produced by a division by zero exactly as numpy  *)
(* produces them (0/0 = nan, x/0 = +-inf).                                 *)
(*                                                                         *)
(* Arrays.  A 1-d array is a sequence of rationals; the N x M objectives   *)
(* matrix is a sequence of N rows, each a sequence of M entries; the       *)
(* (M+1) x N array returned by _shift is a sequence of M+1 layers.         *)
(* Python indices i = 0..M-1 are TLA+ indices i+1 = 1..M.                  *)
(***************************************************************************)
EXTENDS Integers, Sequences, FiniteSets, TLC

--------------------------------------------------------------------------
(* Exact rational arithmetic standing for float64 arithmetic.              *)

Abs(i) ==
  IF i < 0 THEN -i ELSE i

RECURSIVE Gcd(_, _)
Gcd(a, b) ==
  IF b = 0 THEN a ELSE Gcd(b, a % b)

Sign(i) ==
  IF i > 0 THEN 1 ELSE IF i < 0 THEN -1 ELSE 0

\* the rational n/d in lowest terms; d = 0 gives nan (n = 0) or +-inf
Rat(n, d) ==
  IF d = 0 THEN <<Sign(n), 0>>
  ELSE LET g == Gcd(Abs(n), Abs(d))
           s == IF d < 0 THEN -1 ELSE 1
       IN  <<(s * n) \div g, (s * d) \div g>>

Num(i) ==
  <<i, 1>>

NaN ==
  <<0, 0>>

IsFinite(x) ==
  x[2] # 0

IsNaN(x) ==
  x = NaN

RAdd(x, y) ==
  Rat(x[1] * y[2] + y[1] * x[2], x[2] * y[2])

RSub(x, y) ==
  Rat(x[1] * y[2] - y[1] * x[2], x[2] * y[2])

RNeg(x) ==
  <<-x[1], x[2]>>

RMul(x, y) ==
  Rat(x[1] * y[1], x[2] * y[2])

\* float division: a zero divisor gives nan or +-inf instead of raising
RDiv(x, y) ==
  Rat(x[1] * y[2], x[2] * y[1])

\* comparisons of finite values (a comparison with nan is False in numpy)
RLt(x, y) ==
  /\ IsFinite(x) /\ IsFinite(y)
  /\ x[1] * y[2] < y[1] * x[2]

RLe(x, y) ==
  /\ IsFinite(x) /\ IsFinite(y)
  /\ x[1] * y[2] <= y[1] * x[2]

RGe(x, y) ==
  RLe(y, x)

RGt(x, y) ==
  RLt(y, x)

\* floor of a finite rational
RFloor(x) ==
  x[1] \div x[2]

--------------------------------------------------------------------------
(* numpy reductions over 1-d arrays.                                       *)

Range(s) ==
  {s[i] : i \in DOMAIN s}

\* np.amin / np.min of a non-empty array of finite values
AMin(s) ==
  CHOOSE x \in Range(s) : \A y \in Range(s) : RLe(x, y)

\* np.amax / np.max of a non-empty array of finite values
AMax(s) ==
  CHOOSE x \in Range(s) : \A y \in Range(s) : RLe(y, x)

\* the array holding the values of the function f on 1..n, computed once
\* (@@ builds the function element by element, as np.empty and the
\* assignments that fill it do)
Array(f) ==
  f @@ <<>>

\* a[idx] for an index array idx (fancy indexing), 1-based
Take(a, idx) ==
  Array([k \in 1..Len(idx) |-> a[idx[k]]])

\* objs[:, i]
Column(objs, i) ==
  Array([r \in 1..Len(objs) |-> objs[r][i]])

\* the sorted copy of an array (insertion of each element at its rank)
RECURSIVE SortedInsert(_, _)
SortedInsert(x, s) ==
  IF s = <<>> THEN <<x>>
  ELSE IF RLe(x, Head(s)) THEN <<x>> \o s
  ELSE <<Head(s)>> \o SortedInsert(x, Tail(s))

RECURSIVE Sorted(_)
Sorted(s) ==
  IF s = <<>> THEN <<>> ELSE SortedInsert(Head(s), Sorted(Tail(s)))

\* np.percentile(a, q, interpolation='linear') with q = 100 * frac:
\* the virtual index frac * (n - 1) into the sorted array, interpolated
\* linearly between the two neighbouring order statistics
Percentile(a, frac) ==
  LET srt == Sorted(a)
      pos == RMul(frac, Num(Len(a) - 1))
      lo  == RFloor(pos)
      hi  == IF lo + 1 > Len(a) - 1 THEN Len(a) - 1 ELSE lo + 1
      g   == RSub(pos, Num(lo))
  IN  RAdd(srt[lo + 1], RMul(g, RSub(srt[hi + 1], srt[lo + 1])))

--------------------------------------------------------------------------
(* Python values.                                                          *)

\* Python's None for the optional constructor arguments and unset fields
None ==
  <<>>

\* the Python objects a flag list may hold: the two bools and the int 1,
\* which is truthy but fails isinstance(b, bool)
PyTrue ==
  "True"

PyFalse ==
  "False"

PyOne ==
  "1"

NotGiven ==
  [given |-> FALSE, list |-> <<>>]

Given(l) ==
  [given |-> TRUE, list |-> l]

\* self.softness < 1e-5 selects the hard step
HardCutoff ==
  <<1, 100000>>

\* float64 exp(-x) is exactly 0.0 from x = 746 on (the smallest subnormal
\* is exp(-744.44)), and exp(-log1p(exp(-x))) rounds to exactly 1.0 from
\* x = 38 on (exp(-38) is below half an ulp of 1.0)
ExpUnderflow ==
  <<746, 1>>

ExpAbsorbed ==
  <<38, 1>>

--------------------------------------------------------------------------
(* Chimera's methods as operators on a configuration cfg, the record of    *)
(* the attributes __init__ stores: tolerances, absolutes, percentiles,     *)
(* goals, softness.                                                        *)

\* Chimera._soft_step on one element: exp(-logaddexp(0, -value/softness)),
\* the logistic function of value/softness.  It is 1/2 at 0 and, in
\* float64, exactly 0.0 / 1.0 once the argument saturates; StepSaturated
\* below states that every argument the model feeds it is of these kinds.
_soft_step(softness, value) ==
  LET arg == RDiv(RNeg(value), softness)
  IN  IF arg = Num(0) THEN <<1, 2>>
      ELSE IF RGt(arg, Num(0)) THEN Num(0)
      ELSE Num(1)

\* _hard_step with the comparison slipped to value > 0.
_hard_step_Strict(value) ==
  IF RGt(value, Num(0)) THEN Num(1) ELSE Num(0)

\* Chimera._hard_step on one element: np.where(value >= 0., 1., 0.)
_hard_step(value) ==
  IF RGe(value, Num(0)) THEN Num(1) ELSE Num(0)

\* _step with the cutoff slipped to self.softness <= 1e-5
_step_CutoffInclusive(cfg, value) ==
  IF RLe(cfg.softness, HardCutoff)
    THEN _hard_step(value)
    ELSE _soft_step(cfg.softness, value)

\* Chimera._step on one element
_step(cfg, value) ==
  IF RLt(cfg.softness, HardCutoff)
    THEN _hard_step(value)
    ELSE _soft_step(cfg.softness, value)

\* Chimera._invert_binary on one element: np.abs(a - 1.)
_invert_binary(a) ==
  LET d == RSub(a, Num(1))
  IN  IF RLt(d, Num(0)) THEN RNeg(d) ELSE d

\* Chimera._adjust_objectives: <<adjusted_objs, adjusted_thre>>
_adjust_objectives(cfg, objs) ==
  LET M == Len(cfg.goals)
      adjusted_objs ==
        [r \in 1..Len(objs) |->
           [i \in 1..M |->
              IF cfg.goals[i] = "min" THEN objs[r][i] ELSE RNeg(objs[r][i])]]
      adjusted_thre ==
        [i \in 1..M |->
           IF cfg.goals[i] = "min" THEN cfg.tolerances[i]
           ELSE IF cfg.absolutes[i] = PyTrue THEN RNeg(cfg.tolerances[i])
           ELSE cfg.tolerances[i]]
  IN  <<adjusted_objs, adjusted_thre>>

\* Chimera._rescale_objs_and_thres: <<_objectives, _thresholds>>
_rescale_objs_and_thres(cfg, objs, thres) ==
  LET M == Len(objs[1])
      min_obj == Array([idx \in 1..M |-> AMin(Column(objs, idx))])
      max_obj == Array([idx \in 1..M |-> AMax(Column(objs, idx))])
      _objectives ==
        [r \in 1..Len(objs) |->
           [idx \in 1..M |->
              IF RLt(min_obj[idx], max_obj[idx])
                THEN RDiv(RSub(objs[r][idx], min_obj[idx]),
                          RSub(max_obj[idx], min_obj[idx]))
                ELSE RSub(objs[r][idx], min_obj[idx])]]
      _thresholds ==
        [idx \in 1..M |->
           IF RLt(min_obj[idx], max_obj[idx])
             THEN IF cfg.absolutes[idx] = PyTrue
                    THEN RDiv(RSub(thres[idx], min_obj[idx]),
                              RSub(max_obj[idx], min_obj[idx]))
                    ELSE thres[idx]
             ELSE IF cfg.absolutes[idx] = PyTrue
                    THEN RSub(thres[idx], min_obj[idx])
                    ELSE thres[idx]]
  IN  <<_objectives, _thresholds>>

\* the local _threshold of one iteration of the loop of _shift: the
\* tolerance adapted to the domain of interest
EffectiveThreshold(cfg, obj, thresholds, domain, idx) ==
  IF cfg.absolutes[idx] = PyFalse
    THEN IF cfg.percentiles[idx] = PyFalse
           THEN LET domain_min == AMin(Take(obj, domain))
                    domain_max == AMax(Take(obj, domain))
                IN  RAdd(domain_min,
                         RMul(thresholds[idx], RSub(domain_max, domain_min)))
           ELSE Percentile(Take(obj, domain), thresholds[idx])
    ELSE thresholds[idx]

\* the selection with the restriction to the domain forgotten:
\* np.where(obj < thresholds[idx])
Interest_AllRows(obj, thresholds, domain, idx) ==
  SelectSeq([r \in 1..Len(obj) |-> r], LAMBDA r : RLt(obj[r], thresholds[idx]))

\* the rows np.where(obj[domain] < thresholds[idx]) selects from domain
Interest(obj, thresholds, domain, idx) ==
  SelectSeq(domain, LAMBDA r : RLt(obj[r], thresholds[idx]))

\* the locals of _shift before its loop
ShiftStart(objectives) ==
  [domain              |-> [r \in 1..Len(objectives) |-> r],
   shift               |-> Num(0),
   shifted_objs        |-> <<Column(objectives, 1)>>,
   shifted_thresholds  |-> <<>>]

\* one iteration of the loop of _shift, for tier idx (1-based), on the
\* locals st
ShiftTier(cfg, objectives, thresholds, st, idx) ==
  LET M   == Len(objectives[1])
      obj == Column(objectives, idx)
      _threshold == EffectiveThreshold(cfg, obj, thresholds, st.domain, idx)
      shifted_threshold  == RSub(_threshold, st.shift)
      shifted_thresholds == Append(st.shifted_thresholds, shifted_threshold)
      interest == Interest(obj, thresholds, st.domain, idx)
      domain   == IF Len(interest) > 0 THEN interest ELSE st.domain
      next_idx == (idx % M) + 1
      next_obj == Column(objectives, next_idx)
      shift    == RSub(AMax(Take(next_obj, domain)), AMin(shifted_thresholds))
      shifted_obj == Array([r \in 1..Len(next_obj) |-> RSub(next_obj[r], shift)])
  IN  [domain              |-> domain,
       shift               |-> shift,
       shifted_objs        |-> Append(st.shifted_objs, shifted_obj),
       shifted_thresholds  |-> shifted_thresholds]

\* the locals of _shift after the iterations for tiers 1..idx
RECURSIVE ShiftLoop(_, _, _, _)
ShiftLoop(cfg, objectives, thresholds, idx) ==
  IF idx = 0 THEN ShiftStart(objectives)
  ELSE ShiftTier(cfg, objectives, thresholds,
                 ShiftLoop(cfg, objectives, thresholds, idx - 1), idx)

\* Chimera._shift: <<shifted_objs, shifted_thresholds>>
_shift(cfg, objectives, thresholds) ==
  LET st == ShiftLoop(cfg, objectives, thresholds, Len(objectives[1]))
  IN  <<st.shifted_objs, st.shifted_thresholds>>

\* the merits of _scalarize after the iterations for tiers M, M-1, .., idx
RECURSIVE CombineFrom(_, _, _, _)
CombineFrom(cfg, shifted_objs, shifted_thres, idx) ==
  IF idx = Len(shifted_objs) THEN shifted_objs[Len(shifted_objs)]
  ELSE LET merits == CombineFrom(cfg, shifted_objs, shifted_thres, idx + 1)
           s(r)   == _step(cfg, RSub(shifted_objs[idx][r], shifted_thres[idx]))
       IN  Array([r \in 1..Len(merits) |->
                    RAdd(RMul(merits[r], _invert_binary(s(r))),
                         RMul(s(r), shifted_objs[idx][r]))])

\* Chimera._scalarize
_scalarize(cfg, shifted_objs, shifted_thres) ==
  CombineFrom(cfg, shifted_objs, shifted_thres, 1)

\* the last statements of Chimera.scalarize: the min-max rescale of merits
NormalizeMerits(m) ==
  LET lo == AMin(m)
      hi == AMax(m)
  IN  IF RGt(hi, Num(0))
        THEN Array([r \in 1..Len(m) |-> RDiv(RSub(m[r], lo), RSub(hi, lo))])
        ELSE m

\* Chimera.scalarize on an instance whose pipeline is not disturbed: the
\* value a freshly constructed Chimera with attributes cfg returns
scalarize(cfg, objs) ==
  LET adj == _adjust_objectives(cfg, objs)
      scl == _rescale_objs_and_thres(cfg, adj[1], adj[2])
      shf == _shift(cfg, scl[1], scl[2])
  IN  NormalizeMerits(_scalarize(cfg, shf[1], shf[2]))

--------------------------------------------------------------------------
(* Chimera.__init__.                                                       *)

\* isinstance(b, bool)
IsBool(b) ==
  b \in {PyTrue, PyFalse}

\* the argument checks of a flag list (absolutes, percentiles): raise on a
\* length different from tolerances or on a non-bool entry
FlagListRaises(tolerances, opt) ==
  /\ opt.given
  /\ \/ Len(opt.list) # Len(tolerances)
     \/ \E k \in 1..Len(opt.list) : ~IsBool(opt.list[k])

\* the argument checks of goals
GoalsRaises(tolerances, opt) ==
  /\ opt.given
  /\ \/ Len(opt.list) # Len(tolerances)
     \/ \E k \in 1..Len(opt.list) : opt.list[k] \notin {"min", "max"}

\* the attributes __init__ stores: None becomes the default list
Attributes(a) ==
  LET M == Len(a.tolerances)
  IN  [tolerances  |-> a.tolerances,
       softness    |-> a.softness,
       goals       |-> IF a.goals.given THEN a.goals.list
                       ELSE [i \in 1..M |-> "min"],
       absolutes   |-> IF a.absolutes.given THEN a.absolutes.list
                       ELSE [i \in 1..M |-> PyFalse],
       percentiles |-> IF a.percentiles.given THEN a.percentiles.list
                       ELSE [i \in 1..M |-> PyFalse]]

Min2(i, j) ==
  IF i < j THEN i ELSE j

\* the check over zip(self.absolutes, self.percentiles)
BothFlagsRaises(c) ==
  \E k \in 1..Min2(Len(c.absolutes), Len(c.percentiles)) :
    c.absolutes[k] = PyTrue /\ c.percentiles[k] = PyTrue

\* the range check with the test t < 0. forgotten
RelativeRangeRaises_NoLowerBound(c) ==
  \E k \in 1..Min2(Len(c.absolutes), Len(c.tolerances)) :
    /\ c.absolutes[k] = PyFalse
    /\ RGt(c.tolerances[k], Num(1))

\* the check over zip(self.absolutes, self.tolerances)
RelativeRangeRaises(c) ==
  \E k \in 1..Min2(Len(c.absolutes), Len(c.tolerances)) :
    /\ c.absolutes[k] = PyFalse
    /\ RGt(c.tolerances[k], Num(1)) \/ RLt(c.tolerances[k], Num(0))

\* __init__ raises ValueError on the arguments a
InitRaises(a) ==
  \/ FlagListRaises(a.tolerances, a.absolutes)
  \/ FlagListRaises(a.tolerances, a.percentiles)
  \/ GoalsRaises(a.tolerances, a.goals)
  \/ BothFlagsRaises(Attributes(a))
  \/ RelativeRangeRaises(Attributes(a))

--------------------------------------------------------------------------
(* Bounds and the inputs drawn within them.                                *)

\* most tiers (columns) of a configuration
MaxTiers ==
  2

\* most samples (rows) of an objectives matrix
MaxRows ==
  3

\* most samples of a matrix passed to an instance that is called more
\* than once, or by more than one thread
SharedRows ==
  2

\* objective values are the integers 0..MaxVal
MaxVal ==
  2

\* most scalarize calls one thread makes on the instance
MaxCalls ==
  2

\* the lists of length 1..MaxTiers over S
Lists(S) ==
  UNION {[1..M -> S] : M \in 1..MaxTiers}

\* row a is lexicographically at most row b
RECURSIVE RowLe(_, _, _)
RowLe(a, b, i) ==
  \/ i > Len(a)
  \/ a[i][1] < b[i][1]
  \/ a[i][1] = b[i][1] /\ RowLe(a, b, i + 1)

\* the N x M matrices with N in 1..maxN and entries in 0..MaxVal, one per
\* class of matrices equal up to the order of their rows: every reduction
\* scalarize takes over the rows (min, max, percentile, where) ignores
\* their order, so a permutation of the rows permutes the merits
Matrices(M, maxN) ==
  {m \in UNION {[1..N -> [1..M -> {Num(v) : v \in 0..MaxVal}]] : N \in 1..maxN} :
     \A r \in 1..(Len(m) - 1) : RowLe(m[r], m[r + 1], 1)}

\* softness values on both sides of the cutoff of _step: 0 (hard step)
\* and 1e-5 (the smallest softness that takes the soft step)
Softnesses ==
  {Num(0), <<1, 100000>>}

\* constructor arguments of the configurations one scalarize call is
\* explored on: every tier relative, percentile or absolute (or, wrongly,
\* both), minimised or maximised, with tolerance 1/2 or 1
CallArgs ==
  [tolerances  : Lists({<<1, 2>>, Num(1)}),
   absolutes   : {Given(l) : l \in Lists({PyTrue, PyFalse})},
   percentiles : {Given(l) : l \in Lists({PyTrue, PyFalse})},
   goals       : {Given(l) : l \in Lists({"min", "max"})},
   softness    : Softnesses]

\* constructor arguments of the instances that are called repeatedly
SeqArgs ==
  [tolerances  : Lists({<<1, 2>>}),
   absolutes   : {NotGiven} \cup {Given(l) : l \in Lists({PyTrue, PyFalse})},
   percentiles : {NotGiven} \cup {Given(l) : l \in Lists({PyTrue, PyFalse})},
   goals       : {NotGiven},
   softness    : Softnesses]

\* constructor arguments of the one-tier instances shared by two threads
ConcArgs ==
  [tolerances  : [1..1 -> {<<1, 2>>, Num(1)}],
   absolutes   : {NotGiven},
   percentiles : {NotGiven},
   goals       : {NotGiven},
   softness    : Softnesses]

\* constructor arguments, valid and invalid: tolerances below, within and
\* above [0,1]; flag lists with a non-bool entry; goals with a word that
\* is neither 'min' nor 'max'; every list of every length 1..MaxTiers, so
\* also of a length different from that of tolerances
CtorArgs ==
  [tolerances  : Lists({<<-1, 2>>, <<1, 2>>, <<3, 2>>}),
   absolutes   : {NotGiven} \cup {Given(l) : l \in Lists({PyTrue, PyFalse, PyOne})},
   percentiles : {NotGiven} \cup {Given(l) : l \in Lists({PyTrue, PyFalse, PyOne})},
   goals       : {NotGiven} \cup {Given(l) : l \in Lists({"min", "max", "both"})},
   softness    : {<<1, 1000>>}]

--------------------------------------------------------------------------
(* The state: one Chimera object and the threads calling its scalarize.    *)

VARIABLES
  status,               \* "new", "constructed", or "ValueError" raised by __init__
  ctor_args,            \* the arguments __init__ was called with
  cfg,                  \* tolerances, absolutes, percentiles, goals, softness
  _objs,                \* self._objs
  _thresholds,          \* self._thresholds
  _scaled_objs,         \* self._scaled_objs
  _scaled_thresholds,   \* self._scaled_thresholds
  _shifted_objs,        \* self._shifted_objs
  _shifted_thresholds,  \* self._shifted_thresholds
  pc,                   \* per thread: the statement of scalarize it is at
  arg,                  \* per thread: the objs argument of its call
  loc,                  \* per thread: parameters and locals of its _shift
  merits,               \* per thread: the local merits of scalarize
  result,               \* per thread: the value its last call returned
  calls                 \* per thread: number of calls started

vars ==
  <<status, ctor_args, cfg, _objs, _thresholds, _scaled_objs,
    _scaled_thresholds, _shifted_objs, _shifted_thresholds,
    pc, arg, loc, merits, result, calls>>

fields ==
  <<_objs, _thresholds, _scaled_objs, _scaled_thresholds,
    _shifted_objs, _shifted_thresholds>>

Threads ==
  {1, 2}

NoArgs ==
  [tolerances |-> <<>>, absolutes |-> NotGiven, percentiles |-> NotGiven,
   goals |-> NotGiven, softness |-> Num(0)]

NoLoc ==
  [objectives |-> <<>>, thresholds |-> <<>>, idx |-> 0, domain |-> <<>>,
   shift |-> Num(0), shifted_objs |-> <<>>, shifted_thresholds |-> <<>>]

\* nothing constructed yet, no call in progress
Init ==
  /\ status = "new"
  /\ ctor_args = NoArgs
  /\ cfg = Attributes(NoArgs)
  /\ _objs = None /\ _thresholds = None
  /\ _scaled_objs = None /\ _scaled_thresholds = None
  /\ _shifted_objs = None /\ _shifted_thresholds = None
  /\ pc = [t \in Threads |-> "idle"]
  /\ arg = [t \in Threads |-> None]
  /\ loc = [t \in Threads |-> NoLoc]
  /\ merits = [t \in Threads |-> None]
  /\ result = [t \in Threads |-> None]
  /\ calls = [t \in Threads |-> 0]

\* Chimera(**a) for some a in Args: raises ValueError, or stores the
\* attributes and sets the six internal fields to None
Construct(Args) ==
  /\ status = "new"
  /\ \E a \in Args :
       /\ ctor_args' = a
       /\ IF InitRaises(a)
            THEN /\ status' = "ValueError"
                 /\ UNCHANGED cfg
            ELSE /\ status' = "constructed"
                 /\ cfg' = Attributes(a)
  /\ _objs' = None /\ _thresholds' = None
  /\ _scaled_objs' = None /\ _scaled_thresholds' = None
  /\ _shifted_objs' = None /\ _shifted_thresholds' = None
  /\ UNCHANGED <<pc, arg, loc, merits, result, calls>>

\* thread t calls scalarize(objs), objs one of the N x M matrices with
\* N <= maxN, and runs its first statement:
\* self._objs, self._thresholds = self._adjust_objectives(np.array(objs))
Call(t, maxN, limit) ==
  /\ status = "constructed"
  /\ pc[t] \in {"idle", "returned"}
  /\ calls[t] < limit
  /\ \E objs \in Matrices(Len(cfg.tolerances), maxN) :
       /\ LET adj == _adjust_objectives(cfg, objs)
          IN  /\ _objs' = adj[1]
              /\ _thresholds' = adj[2]
       /\ arg' = [arg EXCEPT ![t] = objs]
  /\ calls' = [calls EXCEPT ![t] = @ + 1]
  /\ pc' = [pc EXCEPT ![t] = "rescale"]
  /\ UNCHANGED <<status, ctor_args, cfg, _scaled_objs, _scaled_thresholds,
                 _shifted_objs, _shifted_thresholds, loc, merits, result>>

\* the statement made to reuse the scaled arrays of an earlier call:
\* if self._scaled_objs is None: self._scaled_objs, ... = ...
Rescale_Memoized(t) ==
  /\ pc[t] = "rescale"
  /\ IF _scaled_objs = None
       THEN LET scl == _rescale_objs_and_thres(cfg, _objs, _thresholds)
            IN  /\ _scaled_objs' = scl[1]
                /\ _scaled_thresholds' = scl[2]
       ELSE UNCHANGED <<_scaled_objs, _scaled_thresholds>>
  /\ pc' = [pc EXCEPT ![t] = "shift"]
  /\ UNCHANGED <<status, ctor_args, cfg, _objs, _thresholds,
                 _shifted_objs, _shifted_thresholds, arg, loc, merits,
                 result, calls>>

\* self._scaled_objs, self._scaled_thresholds =
\*     self._rescale_objs_and_thres(self._objs, self._thresholds)
Rescale(t) ==
  /\ pc[t] = "rescale"
  /\ LET scl == _rescale_objs_and_thres(cfg, _objs, _thresholds)
     IN  /\ _scaled_objs' = scl[1]
         /\ _scaled_thresholds' = scl[2]
  /\ pc' = [pc EXCEPT ![t] = "shift"]
  /\ UNCHANGED <<status, ctor_args, cfg, _objs, _thresholds,
                 _shifted_objs, _shifted_thresholds, arg, loc, merits,
                 result, calls>>

\* entry of self._shift(self._scaled_objs, self._scaled_thresholds): the
\* arguments are bound and the statements before the loop run
ShiftEnter(t) ==
  /\ pc[t] = "shift"
  /\ loc' = [loc EXCEPT ![t] =
               [objectives |-> _scaled_objs,
                thresholds |-> _scaled_thresholds,
                idx        |-> 0] @@ ShiftStart(_scaled_objs)]
  /\ pc' = [pc EXCEPT ![t] = "loop"]
  /\ UNCHANGED <<status, ctor_args, cfg, fields, arg, merits, result, calls>>

\* one iteration of the loop of _shift
ShiftIter(t) ==
  /\ pc[t] = "loop"
  /\ loc[t].idx < Len(loc[t].objectives[1])
  /\ loc' = [loc EXCEPT ![t] =
               [objectives |-> @.objectives,
                thresholds |-> @.thresholds,
                idx        |-> @.idx + 1]
               @@ ShiftTier(cfg, @.objectives, @.thresholds, @, @.idx + 1)]
  /\ UNCHANGED <<status, ctor_args, cfg, fields, pc, arg, merits, result,
                 calls>>

\* _shift returns and the statement assigns
\* self._shifted_objs, self._shifted_thresholds
ShiftExit(t) ==
  /\ pc[t] = "loop"
  /\ loc[t].idx = Len(loc[t].objectives[1])
  /\ _shifted_objs' = loc[t].shifted_objs
  /\ _shifted_thresholds' = loc[t].shifted_thresholds
  /\ pc' = [pc EXCEPT ![t] = "combine"]
  /\ UNCHANGED <<status, ctor_args, cfg, _objs, _thresholds, _scaled_objs,
                 _scaled_thresholds, arg, loc, merits, result, calls>>

\* the rest of scalarize: merits = self._scalarize(self._shifted_objs,
\* self._shifted_thresholds), its min-max rescale when np.amax(merits) > 0,
\* and the return.  merits keeps the value _scalarize returned.
Return(t) ==
  /\ pc[t] = "combine"
  /\ merits' = [merits EXCEPT ![t] =
                  _scalarize(cfg, _shifted_objs, _shifted_thresholds)]
  /\ result' = [result EXCEPT ![t] = NormalizeMerits(merits'[t])]
  /\ pc' = [pc EXCEPT ![t] = "returned"]
  /\ UNCHANGED <<status, ctor_args, cfg, fields, arg, loc, calls>>

--------------------------------------------------------------------------
(* Specifications.                                                         *)

\* construction alone, on valid and invalid arguments
NextCtor ==
  Construct(CtorArgs)

SpecCtor ==
  Init /\ [][NextCtor]_vars

\* one scalarize call, by one thread, on a freshly constructed instance
NextCall ==
  \/ Construct(CallArgs)
  \/ Call(1, MaxRows, 1)
  \/ Rescale(1)
  \/ ShiftEnter(1)
  \/ ShiftIter(1)
  \/ ShiftExit(1)
  \/ Return(1)

SpecCall ==
  Init /\ [][NextCall]_vars

\* one thread calling scalarize again and again on one instance
Next ==
  \/ Construct(SeqArgs)
  \/ Call(1, SharedRows, MaxCalls)
  \/ Rescale(1)
  \/ ShiftEnter(1)
  \/ ShiftIter(1)
  \/ ShiftExit(1)
  \/ Return(1)

Spec ==
  Init /\ [][Next]_vars

\* two threads, each calling scalarize once on the shared instance; the
\* statements of the two calls interleave in any order
NextConc ==
  \/ Construct(ConcArgs)
  \/ \E t \in Threads :
       \/ Call(t, SharedRows, 1)
       \/ Rescale(t)
       \/ ShiftEnter(t)
       \/ ShiftIter(t)
       \/ ShiftExit(t)
       \/ Return(t)

SpecConc ==
  Init /\ [][NextConc]_vars

--------------------------------------------------------------------------
(* Vocabulary of the properties.                                           *)

Returned(t) ==
  pc[t] = "returned"

\* the soft step of the model is the step float64 computes: every
\* argument value/softness it is given is 0 or saturates exp()
SoftStepExact ==
  \A t \in Threads :
    Returned(t) /\ ~RLt(cfg.softness, HardCutoff) =>
      \A i \in 1..Len(_shifted_thresholds) :
        \A r \in 1..Len(_shifted_objs[i]) :
          LET a == RDiv(RSub(_shifted_objs[i][r], _shifted_thresholds[i]),
                        cfg.softness)
          IN  \/ a = Num(0)
              \/ RGe(a, ExpAbsorbed)
              \/ RLe(a, RNeg(ExpUnderflow))

\* plain min-max normalisation of a non-constant column
MinMax(col) ==
  [r \in 1..Len(col) |->
     RDiv(RSub(col[r], AMin(col)), RSub(AMax(col), AMin(col)))]

\* the rows 1..N of a matrix, as the initial domain of _shift
AllRows(objs) ==
  [r \in 1..Len(objs) |-> r]

--------------------------------------------------------------------------
(* C1.  scalarize returns a vector of length N with no NaN and no          *)
(* infinite entry, for every valid configuration and every N x M matrix    *)
(* with N >= 1: the final min-max rescale never divides by zero.           *)
C1_FiniteMerits ==
  Returned(1) =>
    /\ Len(result[1]) = Len(arg[1])
    /\ \A r \in 1..Len(result[1]) : IsFinite(result[1][r])

(* C2.  Whenever the maximum of the raw merits of _scalarize is > 0,       *)
(* every value scalarize returns lies in [0,1].                            *)
C2_UnitInterval ==
  Returned(1) /\ RGt(AMax(merits[1]), Num(0)) =>
    \A r \in 1..Len(result[1]) :
      RLe(Num(0), result[1][r]) /\ RLe(result[1][r], Num(1))

\* tier 0's effective threshold in the batch of the returned call, and
\* the goal-adjusted, normalised tier-0 value of row r
Tier0Threshold ==
  EffectiveThreshold(cfg, Column(_scaled_objs, 1), _scaled_thresholds,
                     AllRows(_scaled_objs), 1)

Tier0Value(r) ==
  _scaled_objs[r][1]

\* rows A and B agree on every tier but tier 0, and exactly one of them
\* is below tier 0's effective threshold
DifferOnTier0Only(A, B) ==
  /\ \A i \in 2..Len(arg[1][A]) : arg[1][A][i] = arg[1][B][i]
  /\ RLt(Tier0Value(A), Tier0Threshold) # RLt(Tier0Value(B), Tier0Threshold)

(* C3.  Hierarchy dominance: of two samples that agree on every tier but   *)
(* tier 0, exactly one of them below tier 0's effective threshold, the     *)
(* one with the lower tier-0 value gets a merit <= the other's.            *)
C3_HierarchyDominance ==
  Returned(1) =>
    \A A, B \in 1..Len(arg[1]) :
      DifferOnTier0Only(A, B) /\ RLt(Tier0Value(A), Tier0Value(B)) =>
        RLe(result[1][A], result[1][B])

(* C4.  No hidden state drift: whatever calls were made before on the      *)
(* instance, a call scalarize(X) returns exactly what a freshly            *)
(* constructed instance with the same configuration returns for X; the     *)
(* values earlier calls left in the six internal fields never influence    *)
(* the result.                                                             *)
C4_NoStateDrift ==
  Returned(1) => result[1] = scalarize(cfg, arg[1])

\* a second call has returned on an instance whose first call left its
\* arrays in the six fields
C4_Witness ==
  /\ Returned(1)
  /\ calls[1] = 2
  /\ Len(arg[1]) = 2
  /\ result[1] = <<Num(0), Num(1)>>

(* C5.  When two scalarize calls with different matrices run on one shared *)
(* instance and their statements interleave in any order, each call still  *)
(* returns the merit vector of its own input matrix.                       *)
C5_EachCallItsOwnMerits ==
  \A t \in Threads :
    Returned(t) /\ arg[1] # arg[2] => result[t] = scalarize(cfg, arg[t])

\* tier k (1-based) is flagged in the optional flag list opt
Flagged(opt, k) ==
  opt.given /\ k <= Len(opt.list) /\ opt.list[k] = PyTrue

\* the arguments the claim says construction must reject
C6_Rejected(a) ==
  \/ a.absolutes.given /\ Len(a.absolutes.list) # Len(a.tolerances)
  \/ a.percentiles.given /\ Len(a.percentiles.list) # Len(a.tolerances)
  \/ a.goals.given /\ Len(a.goals.list) # Len(a.tolerances)
  \/ \E k \in 1..Len(a.absolutes.list) : ~IsBool(a.absolutes.list[k])
  \/ \E k \in 1..Len(a.percentiles.list) : ~IsBool(a.percentiles.list[k])
  \/ \E k \in 1..Len(a.goals.list) : a.goals.list[k] \notin {"min", "max"}
  \/ \E k \in 1..Len(a.tolerances) :
       Flagged(a.absolutes, k) /\ Flagged(a.percentiles, k)
  \/ \E k \in 1..Len(a.tolerances) :
       /\ ~Flagged(a.absolutes, k) /\ ~Flagged(a.percentiles, k)
       /\ RGt(a.tolerances[k], Num(1)) \/ RLt(a.tolerances[k], Num(0))

\* what the claim says of every constructed instance
C6_WellFormed(c) ==
  /\ Len(c.absolutes) = Len(c.tolerances)
  /\ Len(c.percentiles) = Len(c.tolerances)
  /\ Len(c.goals) = Len(c.tolerances)
  /\ \A k \in 1..Len(c.tolerances) :
       /\ ~(c.absolutes[k] = PyTrue /\ c.percentiles[k] = PyTrue)
       /\ c.absolutes[k] # PyTrue =>
            RLe(Num(0), c.tolerances[k]) /\ RLe(c.tolerances[k], Num(1))

(* C6.  Construction raises ValueError, and yields no instance, whenever   *)
(* a given absolutes, percentiles or goals differs in length from          *)
(* tolerances, a flag entry is not a bool, a goal is not 'min' or 'max',   *)
(* a tier is flagged both absolute and percentile, or a tier flagged       *)
(* neither has a tolerance outside [0,1]; so every constructed instance    *)
(* has lists of equal length, no tier flagged both, and every              *)
(* non-absolute tolerance within [0,1].                                    *)
C6_ConstructionValidates ==
  /\ status # "new" /\ C6_Rejected(ctor_args) =>
       status = "ValueError" /\ cfg = Attributes(NoArgs)
  /\ status = "constructed" => C6_WellFormed(cfg)

\* construction was refused for lists of the right lengths and types,
\* because a tier is flagged twice or a relative tolerance is out of range
C6_Witness ==
  /\ status = "ValueError"
  /\ Len(ctor_args.tolerances) = 2
  /\ ctor_args.absolutes.given /\ Len(ctor_args.absolutes.list) = 2
  /\ ctor_args.percentiles.given /\ Len(ctor_args.percentiles.list) = 2
  /\ \A k \in 1..2 : /\ IsBool(ctor_args.absolutes.list[k])
                     /\ IsBool(ctor_args.percentiles.list[k])
  /\ ~ctor_args.goals.given

\* the configuration of the single-tier boundary: tolerances=[1.0],
\* absolutes=[False], goal 'min', the tier not a percentile tier
C7_Config ==
  /\ cfg.tolerances = <<Num(1)>>
  /\ cfg.absolutes = <<PyFalse>>
  /\ cfg.percentiles = <<PyFalse>>
  /\ cfg.goals = <<"min">>

\* the single column of the matrix of the returned call
C7_Column ==
  Column(arg[1], 1)

\* C7 as the specification states it: for tolerances=[1.0],
\* absolutes=[False], goal 'min' and any N x 1 matrix whose column is not
\* constant, scalarize returns the plain min-max normalisation of it.
C7_Original ==
  Returned(1) /\ C7_Config /\ Cardinality(Range(C7_Column)) > 1 =>
    result[1] = MinMax(C7_Column)

(* C7 (amended).  For tolerances=[1.0], absolutes=[False], goal 'min',     *)
(* the soft step (softness >= 1e-5) and any N x 1 matrix whose column      *)
(* takes exactly two distinct values, scalarize returns the plain min-max  *)
(* normalisation of the column: 0 for the rows at the minimum and 1 for    *)
(* the rows at the maximum.                                                *)
C7_TwoValuedMinMax ==
  Returned(1) /\ C7_Config /\ ~RLt(cfg.softness, HardCutoff)
    /\ Cardinality(Range(C7_Column)) = 2 =>
    result[1] = MinMax(C7_Column)

\* a three-row, two-valued column was scalarized with the soft step
C7_Witness ==
  /\ Returned(1) /\ C7_Config /\ ~RLt(cfg.softness, HardCutoff)
  /\ C7_Column = <<Num(0), Num(2), Num(2)>>
  /\ result[1] = <<Num(0), Num(1), Num(1)>>

\* the rows of the domain d whose tier-idx value is strictly below the
\* tier's effective threshold over d; d itself when there is none
C8_Narrowed(l, idx) ==
  LET obj == Column(l.objectives, idx)
      thr == EffectiveThreshold(cfg, obj, l.thresholds, l.domain, idx)
      below == SelectSeq(l.domain, LAMBDA r : RLt(obj[r], thr))
  IN  IF below = <<>> THEN l.domain ELSE below

\* thread t runs one iteration of the loop of _shift in this step
IterStep(t) ==
  pc[t] = "loop" /\ loc'[t].idx = loc[t].idx + 1

(* C8.  In _shift, at every tier idx the domain of interest is narrowed    *)
(* to exactly the rows of the current domain whose unshifted tier-idx      *)
(* value is strictly less than that tier's effective threshold, and is     *)
(* left unchanged when that set is empty.                                  *)
C8_NarrowByEffectiveThreshold ==
  [][IterStep(1) => loc'[1].domain = C8_Narrowed(loc[1], loc'[1].idx)]_vars

(* C9.  Throughout _shift the domain of interest starts as the full set of *)
(* row indices, and after each tier it is a non-empty subset of the domain *)
(* it was before that tier.                                                *)
C9_DomainShrinks ==
  /\ [](pc[1] = "loop" /\ loc[1].idx = 0 =>
          loc[1].domain = AllRows(loc[1].objectives))
  /\ [][IterStep(1) =>
          /\ loc'[1].domain # <<>>
          /\ Range(loc'[1].domain) \subseteq Range(loc[1].domain)]_vars

\* the loop of _shift narrowed a three-row domain at tier 0 and again at
\* tier 1
C9_Witness ==
  /\ pc[1] = "loop"
  /\ loc[1].idx = 2
  /\ Len(loc[1].objectives) = 3
  /\ Len(loc[1].domain) = 1
  /\ Len(ShiftLoop(cfg, loc[1].objectives, loc[1].thresholds, 1).domain) = 2

\* the tiers (1-based) of row r whose shifted value is >= the shifted
\* threshold
C10_Violated(r) ==
  {i \in 1..Len(_shifted_thresholds) :
     RGe(_shifted_objs[i][r], _shifted_thresholds[i])}

\* the smallest element of a non-empty set of tiers
C10_First(S) ==
  CHOOSE i \in S : \A j \in S : i <= j

(* C10.  With the hard step (softness < 1e-5) the raw merit _scalarize     *)
(* gives a sample is its shifted value on the most important tier whose    *)
(* shifted value is >= its shifted threshold, and its value in the wrap    *)
(* layer shifted_objs[M] when no tier is.                                  *)
C10_HardMultiplexer ==
  Returned(1) /\ RLt(cfg.softness, HardCutoff) =>
    \A r \in 1..Len(merits[1]) :
      merits[1][r] =
        IF C10_Violated(r) = {}
          THEN _shifted_objs[Len(_shifted_objs)][r]
          ELSE _shifted_objs[C10_First(C10_Violated(r))][r]

\* a hard-step call on two tiers returned with one sample decided by
\* tier 0, one by tier 1 and one by the wrap layer
C10_Witness ==
  /\ Returned(1) /\ RLt(cfg.softness, HardCutoff)
  /\ Len(_shifted_thresholds) = 2
  /\ \E r \in 1..Len(merits[1]) : C10_Violated(r) = {}
  /\ \E r \in 1..Len(merits[1]) : C10_Violated(r) = {2}
  /\ \E r \in 1..Len(merits[1]) : 1 \in C10_Violated(r)

==========================================================================
